---- MODULE Spec2Model ----
(***************************************************************************)
(* LinkedIn MCP server (src/server.py): the tool catalog, the call_tool    *)
(* dispatcher, the lazily created shared httpx session, the six upstream   *)
(* capabilities with their response normalisation, and the cleanup run by  *)
(* main() when server.run() ends.                                          *)
(*                                                                         *)
(* Handlers are asyncio coroutines on one event loop: the code between two *)
(* suspending awaits runs without interleaving, so every action below is   *)
(* one such segment.  The only suspending awaits of a handler are the      *)
(* client.get(...) calls (awaiting get_http_client or a capability         *)
(* coroutine does not by itself yield to the loop).                        *)
(***************************************************************************)
EXTENDS Integers, Sequences, FiniteSets, TLC

(***************************************************************************)
(* Bounds of the model.                                                    *)
(***************************************************************************)
\* number of invocation slots the transport loop may have in flight
NumTasks == 2
\* longest upstream `elements` array
MaxElements == 2
\* requested limits range over -MaxLimit .. MaxLimit (and one non-integer)
MaxLimit == 2
\* number of list_tools answers kept for comparison
MaxListings == 2

(***************************************************************************)
(* Python / JSON values.  A dict keeps its items in insertion order, as    *)
(* Python does: it is a sequence of <<key, value>> pairs.  A raised        *)
(* exception is carried as a value and propagated by every operator.       *)
(***************************************************************************)
None == [t |-> "none"]
Str(s) == [t |-> "str", v |-> s]
Num(n) == [t |-> "int", v |-> n]
Float(r) == [t |-> "float", v |-> r]
Bool(b) == [t |-> "bool", v |-> b]
Dict(items) == [t |-> "dict", v |-> items]
List(xs) == [t |-> "list", v |-> xs]
Exc(cls, msg) == [t |-> "raise", cls |-> cls, msg |-> msg]
IsRaise(x) == x.t = "raise"

EmptyDict == Dict(<<>>)
EmptyList == List(<<>>)
EmptyStr == Str("")

TypeName(x) ==
  CASE x.t = "none" -> "NoneType"
    [] x.t = "str" -> "str"
    [] x.t = "int" -> "int"
    [] x.t = "float" -> "float"
    [] x.t = "bool" -> "bool"
    [] x.t = "dict" -> "dict"
    [] x.t = "list" -> "list"

SetMin(S) == CHOOSE m \in S : \A n \in S : m <= n
SetMax(S) == CHOOSE m \in S : \A n \in S : n <= m

\* the first raised exception among the values xs, in evaluation order
AnyRaise(xs) == \E j \in DOMAIN xs : IsRaise(xs[j])
FirstRaise(xs) == xs[SetMin({j \in DOMAIN xs : IsRaise(xs[j])})]

(***************************************************************************)
(* str operations                                                          *)
(***************************************************************************)
\* positions at which the one-character string c occurs in s
Occurrences(s, c) == {j \in 1..Len(s) : SubSeq(s, j, j) = c}

\* sub in s
StrContains(s, sub) ==
  \E j \in 1..(Len(s) - Len(sub) + 1) : SubSeq(s, j, j + Len(sub) - 1) = sub

StartsWith(s, p) == Len(s) >= Len(p) /\ SubSeq(s, 1, Len(p)) = p
EndsWith(s, p) == Len(s) >= Len(p) /\ SubSeq(s, Len(s) - Len(p) + 1, Len(s)) = p

\* s.split(c)[-1]
SplitLast(s, c) ==
  IF Occurrences(s, c) = {} THEN s
  ELSE IF SetMax(Occurrences(s, c)) = Len(s) THEN ""
  ELSE SubSeq(s, SetMax(Occurrences(s, c)) + 1, Len(s))

\* s.split(c)[0]
SplitFirst(s, c) ==
  IF Occurrences(s, c) = {} THEN s
  ELSE IF SetMin(Occurrences(s, c)) = 1 THEN ""
  ELSE SubSeq(s, 1, SetMin(Occurrences(s, c)) - 1)

RECURSIVE JoinFrom(_, _, _)
\* sep.join(parts[j:])  (parts a sequence of strings, j 1-based)
JoinFrom(parts, sep, j) ==
  IF j > Len(parts) THEN ""
  ELSE IF j = Len(parts) THEN parts[j]
  ELSE parts[j] \o sep \o JoinFrom(parts, sep, j + 1)

Join(parts, sep) == JoinFrom(parts, sep, 1)

(***************************************************************************)
(* repr(), str() and json.dumps(obj, indent=2)                             *)
(***************************************************************************)
RECURSIVE repr(_)
repr(x) ==
  CASE x.t = "none" -> "None"
    [] x.t = "str" -> "'" \o x.v \o "'"
    [] x.t = "int" -> ToString(x.v)
    [] x.t = "float" -> x.v
    [] x.t = "bool" -> (IF x.v THEN "True" ELSE "False")
    [] x.t = "dict" ->
         "{" \o Join([j \in DOMAIN x.v |->
                        "'" \o x.v[j][1] \o "': " \o repr(x.v[j][2])], ", ") \o "}"
    [] x.t = "list" ->
         "[" \o Join([j \in DOMAIN x.v |-> repr(x.v[j])], ", ") \o "]"

\* str(x), as an f-string placeholder formats it
str(x) == IF x.t = "str" THEN x.v ELSE repr(x)

RECURSIVE dumps(_, _)
\* json.dumps(x, indent=2) with the current indentation ind; the strings of
\* the bounded universe hold no character that JSON escapes
dumps(x, ind) ==
  CASE x.t = "none" -> "null"
    [] x.t = "str" -> "\"" \o x.v \o "\""
    [] x.t = "int" -> ToString(x.v)
    [] x.t = "float" -> x.v
    [] x.t = "bool" -> (IF x.v THEN "true" ELSE "false")
    [] x.t = "dict" ->
         IF x.v = <<>> THEN "{}"
         ELSE "{\n" \o
              Join([j \in DOMAIN x.v |->
                      ind \o "  " \o "\"" \o x.v[j][1] \o "\": "
                          \o dumps(x.v[j][2], ind \o "  ")], ",\n")
              \o "\n" \o ind \o "}"
    [] x.t = "list" ->
         IF x.v = <<>> THEN "[]"
         ELSE "[\n" \o
              Join([j \in DOMAIN x.v |->
                      ind \o "  " \o dumps(x.v[j], ind \o "  ")], ",\n")
              \o "\n" \o ind \o "]"

json_dumps(x) == dumps(x, "")

(***************************************************************************)
(* dict, list and str operations of the handlers, with the exceptions      *)
(* Python raises when the receiver has another type                        *)
(***************************************************************************)
Keys(d) == {d.v[j][1] : j \in DOMAIN d.v}
Lookup(d, k) == d.v[CHOOSE j \in DOMAIN d.v : d.v[j][1] = k][2]

\* d.get(k, default)
py_get(d, k, default) ==
  IF IsRaise(d) THEN d
  ELSE IF d.t = "dict" THEN (IF k \in Keys(d) THEN Lookup(d, k) ELSE default)
  ELSE Exc("AttributeError",
           "'" \o TypeName(d) \o "' object has no attribute 'get'")

\* d[k] for a str key k
py_index(d, k) ==
  IF IsRaise(d) THEN d
  ELSE IF d.t = "dict"
       THEN (IF k \in Keys(d) THEN Lookup(d, k) ELSE Exc("KeyError", "'" \o k \o "'"))
  ELSE IF d.t = "str" THEN Exc("TypeError", "string indices must be integers")
  ELSE IF d.t = "list"
       THEN Exc("TypeError", "list indices must be integers or slices, not str")
  ELSE Exc("TypeError", "'" \o TypeName(d) \o "' object is not subscriptable")

\* k in c for a str k: a key of a dict, an element of a list, a substring of a str
py_in(k, c) ==
  IF IsRaise(c) THEN c
  ELSE IF c.t = "dict" THEN Bool(k \in Keys(c))
  ELSE IF c.t = "list" THEN Bool(\E j \in DOMAIN c.v : c.v[j] = Str(k))
  ELSE IF c.t = "str" THEN Bool(StrContains(c.v, k))
  ELSE Exc("TypeError",
           "argument of type '" \o TypeName(c) \o "' is not iterable")

\* the items a for loop over c visits
py_iter(c) ==
  IF IsRaise(c) THEN c
  ELSE IF c.t = "list" THEN c
  ELSE IF c.t = "dict" THEN List([j \in DOMAIN c.v |-> Str(c.v[j][1])])
  ELSE IF c.t = "str" THEN List([j \in 1..Len(c.v) |-> Str(SubSeq(c.v, j, j))])
  ELSE Exc("TypeError", "'" \o TypeName(c) \o "' object is not iterable")

\* the first n items of the sequence xs, as Python's xs[:n] counts them
Prefix(xs, n) ==
  IF n >= 0 THEN SubSeq(xs, 1, IF n < Len(xs) THEN n ELSE Len(xs))
  ELSE SubSeq(xs, 1, IF Len(xs) + n > 0 THEN Len(xs) + n ELSE 0)

\* c[:n]
py_slice_to(c, n) ==
  IF IsRaise(c) THEN c
  ELSE IF c.t = "dict" THEN Exc("TypeError", "unhashable type: 'slice'")
  ELSE IF c.t \notin {"list", "str"}
       THEN Exc("TypeError", "'" \o TypeName(c) \o "' object is not subscriptable")
  ELSE IF n.t = "none" THEN c
  ELSE IF n.t \in {"int", "bool"}
       THEN LET k == IF n.t = "int" THEN n.v ELSE (IF n.v THEN 1 ELSE 0)
            IN  IF c.t = "list" THEN List(Prefix(c.v, k))
                ELSE Str(IF Prefix([j \in 1..Len(c.v) |-> j], k) = <<>> THEN ""
                         ELSE SubSeq(c.v, 1, Len(Prefix([j \in 1..Len(c.v) |-> j], k))))
  ELSE Exc("TypeError",
           "slice indices must be integers or None or have an __index__ method")

\* bool(x)
py_truthy(x) ==
  CASE x.t = "none" -> FALSE
    [] x.t = "str" -> x.v # ""
    [] x.t = "int" -> x.v # 0
    [] x.t = "float" -> x.v \notin {"0.0", "-0.0"}
    [] x.t = "bool" -> x.v
    [] x.t = "dict" -> x.v # <<>>
    [] x.t = "list" -> x.v # <<>>

\* f"{a}<sep>{b}"
py_fstr2(a, sep, b) ==
  IF IsRaise(a) THEN a
  ELSE IF IsRaise(b) THEN b
  ELSE Str(str(a) \o sep \o str(b))

\* f"<prefix>{a}"
py_fstr1(prefix, a) == IF IsRaise(a) THEN a ELSE Str(prefix \o str(a))

\* {k1: v1, ...}: the values are evaluated in order, the first exception wins
dict_lit(items) ==
  IF AnyRaise([j \in DOMAIN items |-> items[j][2]])
  THEN FirstRaise([j \in DOMAIN items |-> items[j][2]])
  ELSE Dict(items)

\* d[k] = val: an existing key keeps its position, a new one is appended
dict_set(d, k, val) ==
  IF IsRaise(d) THEN d
  ELSE IF IsRaise(val) THEN val
  ELSE IF k \in Keys(d)
       THEN Dict([j \in DOMAIN d.v |-> IF d.v[j][1] = k THEN <<k, val>> ELSE d.v[j]])
  ELSE Dict(Append(d.v, <<k, val>>))

RECURSIVE UpdateFrom(_, _, _)
UpdateFrom(d, e, j) ==
  IF j > Len(e.v) THEN d
  ELSE UpdateFrom(dict_set(d, e.v[j][1], e.v[j][2]), e, j + 1)

\* d.update(e)
dict_update(d, e) ==
  IF IsRaise(d) THEN d ELSE IF IsRaise(e) THEN e ELSE UpdateFrom(d, e, 1)

\* the items the loop body runs on: none when the iteration itself raises
Items(it) == IF IsRaise(it) THEN <<>> ELSE it.v

\* results = []; for x in xs: results.append(...): it is py_iter(xs) and ys
\* the value appended for each item; the first exception ends the loop
for_append(it, ys) ==
  IF IsRaise(it) THEN it
  ELSE IF AnyRaise(ys) THEN FirstRaise(ys)
  ELSE List(ys)

\* len(xs) of a list
py_len(xs) == IF IsRaise(xs) THEN xs ELSE Num(Len(xs.v))

(***************************************************************************)
(* The upstream boundary: one GET, then raise_for_status() and .json()     *)
(***************************************************************************)
API == "https://www.linkedin.com/voyager/api"

Request(url, params) == [url |-> url, params |-> params]

ConnectError == [kind |-> "ConnectError"]
ReadTimeout == [kind |-> "ReadTimeout"]
\* an HTTP response: its status, and its body as JSON text (a value) or not JSON
HttpJson(status, data) == [kind |-> "http", status |-> status, json |-> TRUE, data |-> data]
HttpText(status) == [kind |-> "http", status |-> status, json |-> FALSE, data |-> None]

\* response = await client.get(...); response.raise_for_status();
\* data = response.json(): the parsed document, or the exception raised
await_get(req, resp) ==
  IF resp.kind = "ConnectError"
  THEN Exc("ConnectError", "All connection attempts failed")
  ELSE IF resp.kind = "ReadTimeout" THEN Exc("ReadTimeout", "")
  ELSE IF resp.status < 200 \/ resp.status > 299
  THEN Exc("HTTPStatusError",
           (IF resp.status >= 500 THEN "Server error '" ELSE "Client error '")
             \o ToString(resp.status) \o "' for url '" \o req.url \o "'")
  ELSE IF ~resp.json
  THEN Exc("JSONDecodeError", "Expecting value: line 1 column 1 (char 0)")
  ELSE resp.data

(***************************************************************************)
(* get_my_profile                                                          *)
(***************************************************************************)
get_my_profile_request == Request(API \o "/me", EmptyDict)

\* the minimal identity record built from /me
get_my_profile_basic(data) ==
  dict_lit(<<
    <<"name", py_fstr2(py_get(data, "firstName", EmptyStr), " ",
                       py_get(data, "lastName", EmptyStr))>>,
    <<"headline", py_get(data, "headline", EmptyStr)>>,
    <<"publicIdentifier", py_get(data, "publicIdentifier", EmptyStr)>>,
    <<"profile_url", py_fstr1("https://www.linkedin.com/in/",
                              py_get(data, "publicIdentifier", EmptyStr))>> >>)

\* username = data.get('publicIdentifier')
get_my_profile_username(data) == py_get(data, "publicIdentifier", None)

\* profile.update(detailed); return profile
get_my_profile_merge(profile, detailed) == dict_update(profile, detailed)

(***************************************************************************)
(* get_profile_by_url                                                      *)
(***************************************************************************)
\* username = profile_url.split('/')[-1].split('?')[0]
\* if 'linkedin.com' not in username: username = profile_url
extract_username(profile_url) ==
  IF IsRaise(profile_url) THEN profile_url
  ELSE IF profile_url.t # "str"
  THEN Exc("AttributeError",
           "'" \o TypeName(profile_url) \o "' object has no attribute 'split'")
  ELSE IF ~StrContains(SplitFirst(SplitLast(profile_url.v, "/"), "?"), "linkedin.com")
  THEN profile_url
  ELSE Str(SplitFirst(SplitLast(profile_url.v, "/"), "?"))

get_profile_by_url_request(username) ==
  Request(API \o "/identity/profiles/" \o str(username) \o "/profileView", EmptyDict)

\* experience["start_date"/"end_date"] = f"{d.get('month', '')}/{d.get('year', '')}"
with_date(experience, key, d) ==
  dict_set(experience, key,
           py_fstr2(py_get(d, "month", EmptyStr), "/", py_get(d, "year", EmptyStr)))

\* the dates of a position that has a 'timePeriod'
with_time_period(experience, time_period) ==
  LET hasStart == py_in("startDate", time_period)
      e1 == IF hasStart.v
            THEN with_date(experience, "start_date", py_index(time_period, "startDate"))
            ELSE experience
      hasEnd == py_in("endDate", time_period)
  IN  IF IsRaise(hasStart) THEN hasStart
      ELSE IF IsRaise(e1) THEN e1
      ELSE IF IsRaise(hasEnd) THEN hasEnd
      ELSE IF hasEnd.v
      THEN with_date(e1, "end_date", py_index(time_period, "endDate"))
      ELSE e1

\* one pass of the loop over positions
experience_of(pos) ==
  LET experience == dict_lit(<<
        <<"title", py_get(pos, "title", EmptyStr)>>,
        <<"company", py_get(pos, "companyName", EmptyStr)>>,
        <<"description", py_get(pos, "description", EmptyStr)>>,
        <<"location", py_get(pos, "locationName", EmptyStr)>> >>)
  IN  IF IsRaise(experience) THEN experience
      ELSE IF ~py_in("timePeriod", pos).v THEN experience
      ELSE with_time_period(experience, py_index(pos, "timePeriod"))

\* one pass of the loop over schools
education_of(school) ==
  dict_lit(<<
    <<"school", py_get(school, "schoolName", EmptyStr)>>,
    <<"degree", py_get(school, "degreeName", EmptyStr)>>,
    <<"field", py_get(school, "fieldOfStudy", EmptyStr)>> >>)

skill_of(skill) == py_get(skill, "name", EmptyStr)

\* skills[:10]
TopSkills == 10

\* positions = data.get('positionView', {}).get('elements', []), iterated
positions(data) ==
  py_iter(py_get(py_get(data, "positionView", EmptyDict), "elements", EmptyList))

\* schools = data.get('educationView', {}).get('elements', []), iterated
schools(data) ==
  py_iter(py_get(py_get(data, "educationView", EmptyDict), "elements", EmptyList))

\* skills = data.get('skillView', {}).get('elements', []); skills[:10], iterated
skills(data) ==
  py_iter(py_slice_to(py_get(py_get(data, "skillView", EmptyDict), "elements", EmptyList),
                      Num(TopSkills)))

\* the normalisation of a profileView document
get_profile_by_url_parse(data, username) ==
  LET profile_data == py_get(data, "profile", EmptyDict)
  IN dict_lit(<<
    <<"name", py_fstr2(py_get(profile_data, "firstName", EmptyStr), " ",
                       py_get(profile_data, "lastName", EmptyStr))>>,
    <<"headline", py_get(profile_data, "headline", EmptyStr)>>,
    <<"summary", py_get(profile_data, "summary", EmptyStr)>>,
    <<"location", py_get(profile_data, "locationName", EmptyStr)>>,
    <<"industry", py_get(profile_data, "industryName", EmptyStr)>>,
    <<"profile_url", py_fstr1("https://www.linkedin.com/in/", username)>>,
    <<"experience",
      for_append(positions(data),
                 [j \in DOMAIN Items(positions(data)) |->
                    experience_of(Items(positions(data))[j])])>>,
    <<"education",
      for_append(schools(data),
                 [j \in DOMAIN Items(schools(data)) |->
                    education_of(Items(schools(data))[j])])>>,
    <<"skills",
      for_append(skills(data),
                 [j \in DOMAIN Items(skills(data)) |->
                    skill_of(Items(skills(data))[j])])>> >>)

(***************************************************************************)
(* search_profiles, search_jobs, get_my_connections                        *)
(***************************************************************************)
\* elements = data.get('elements', []), iterated
elements(data) == py_iter(py_get(data, "elements", EmptyList))

search_profiles_request(query, limit) ==
  Request(API \o "/search/blended",
          Dict(<< <<"keywords", query>>,
                  <<"filters", Str("List(resultType->PEOPLE)")>>,
                  <<"queryContext", Str("List(spellCorrectionEnabled->true)")>>,
                  <<"count", limit>> >>))

profile_hit(element) ==
  LET profile == py_get(py_get(element, "hitInfo", EmptyDict), "*profile", EmptyDict)
  IN dict_lit(<<
    <<"name", py_fstr2(py_get(profile, "firstName", EmptyStr), " ",
                       py_get(profile, "lastName", EmptyStr))>>,
    <<"headline", py_get(profile, "headline", EmptyStr)>>,
    <<"location", py_get(profile, "geoLocationName", EmptyStr)>>,
    <<"public_id", py_get(profile, "publicIdentifier", EmptyStr)>>,
    <<"profile_url", py_fstr1("https://www.linkedin.com/in/",
                              py_get(profile, "publicIdentifier", EmptyStr))>> >>)

\* {"count": len(items), key: items}
counted(key, items) ==
  dict_lit(<< <<"count", py_len(items)>>, <<key, items>> >>)

search_profiles_parse(data) ==
  counted("results",
          for_append(elements(data),
                     [j \in DOMAIN Items(elements(data)) |->
                        profile_hit(Items(elements(data))[j])]))

search_jobs_request(keywords, location, limit) ==
  Request(API \o "/search/blended",
          Dict(<< <<"keywords", keywords>>, <<"count", limit>> >>
               \o (IF py_truthy(location) THEN << <<"location", location>> >> ELSE <<>>)
               \o << <<"filters", Str("List(resultType->JOBS)")>>,
                     <<"queryContext", Str("List(spellCorrectionEnabled->true)")>> >>))

job_hit(element) ==
  LET job == py_get(py_get(element, "hitInfo", EmptyDict), "*jobPosting", EmptyDict)
  IN dict_lit(<<
    <<"title", py_get(job, "title", EmptyStr)>>,
    <<"company", py_get(job, "companyName", EmptyStr)>>,
    <<"location", py_get(job, "formattedLocation", EmptyStr)>>,
    <<"job_url", py_fstr1("https://www.linkedin.com/jobs/view/",
                          py_get(job, "jobPostingId", EmptyStr))>>,
    <<"posted", py_get(job, "listedAt", EmptyStr)>> >>)

search_jobs_parse(data) ==
  counted("jobs",
          for_append(elements(data),
                     [j \in DOMAIN Items(elements(data)) |->
                        job_hit(Items(elements(data))[j])]))

get_my_connections_request(limit) ==
  Request(API \o "/relationships/connections", Dict(<< <<"count", limit>> >>))

connection_of(element) ==
  LET conn == py_get(element, "connectedMember", EmptyDict)
  IN dict_lit(<<
    <<"name", py_fstr2(py_get(conn, "firstName", EmptyStr), " ",
                       py_get(conn, "lastName", EmptyStr))>>,
    <<"headline", py_get(conn, "headline", EmptyStr)>>,
    <<"profile_url", py_fstr1("https://www.linkedin.com/in/",
                              py_get(conn, "publicIdentifier", EmptyStr))>> >>)

get_my_connections_parse(data) ==
  counted("connections",
          for_append(elements(data),
                     [j \in DOMAIN Items(elements(data)) |->
                        connection_of(Items(elements(data))[j])]))

(***************************************************************************)
(* get_feed                                                                *)
(***************************************************************************)
UpdateV2 == "com.linkedin.voyager.feed.render.UpdateV2"

get_feed_request(limit) ==
  Request(API \o "/feed/updates", Dict(<< <<"count", limit>> >>))

EmptyPost ==
  Dict(<< <<"text", EmptyStr>>, <<"author", EmptyStr>>, <<"timestamp", EmptyStr>> >>)

\* one pass of the loop over elements[:limit]
post_of(element) ==
  LET hasValue == py_in("value", element)
      value == py_index(element, "value")
      hasUpdate == py_in(UpdateV2, value)
      commentary == py_get(py_index(value, UpdateV2), "commentary", EmptyDict)
  IN  IF IsRaise(hasValue) THEN hasValue
      ELSE IF ~hasValue.v THEN EmptyPost
      ELSE IF IsRaise(value) THEN value
      ELSE IF IsRaise(hasUpdate) THEN hasUpdate
      ELSE IF ~hasUpdate.v THEN EmptyPost
      ELSE dict_set(EmptyPost, "text",
                    py_get(py_get(commentary, "text", EmptyDict), "text", EmptyStr))

\* elements = data.get('elements', []); elements[:limit], iterated
limited(data, limit) ==
  py_iter(py_slice_to(py_get(data, "elements", EmptyList), limit))

get_feed_parse(data, limit) ==
  counted("posts",
          for_append(limited(data, limit),
                     [j \in DOMAIN Items(limited(data, limit)) |->
                        post_of(Items(limited(data, limit))[j])]))

(***************************************************************************)
(* list_tools: the catalog                                                 *)
(***************************************************************************)
Property(name, type, default) == [name |-> name, type |-> type, default |-> default]
\* a property whose schema declares no default
NoDefault == [t |-> "undefined"]

Tool(name, description, properties, required) ==
  [name |-> name, description |-> description,
   inputSchema |-> [type |-> "object", properties |-> properties, required |-> required]]

DefaultLimit == 10
DefaultConnections == 20

Tools == <<
  Tool("get_my_profile",
       "Get your LinkedIn profile information including name, headline, summary, experience, education, and skills",
       <<>>, <<>>),
  Tool("get_profile_by_url",
       "Get information from any LinkedIn profile by its URL (e.g., linkedin.com/in/username)",
       <<Property("profile_url", "string", NoDefault)>>, <<"profile_url">>),
  Tool("search_profiles",
       "Search for LinkedIn profiles by name, title, company, or keywords",
       <<Property("query", "string", NoDefault),
         Property("limit", "number", Num(DefaultLimit))>>, <<"query">>),
  Tool("search_jobs",
       "Search for job postings on LinkedIn",
       <<Property("keywords", "string", NoDefault),
         Property("location", "string", EmptyStr),
         Property("limit", "number", Num(DefaultLimit))>>, <<"keywords">>),
  Tool("get_my_connections",
       "Get a list of your LinkedIn connections",
       <<Property("limit", "number", Num(DefaultConnections))>>, <<>>),
  Tool("get_feed",
       "Get recent posts from your LinkedIn feed",
       <<Property("limit", "number", Num(DefaultLimit))>>, <<>>) >>

(***************************************************************************)
(* State                                                                   *)
(***************************************************************************)
VARIABLES
  li_at_cookie,   \* self.li_at_cookie: os.getenv(...), None when unset
  session,        \* self.session: NoSession (None) or the client's identity
  constructed,    \* number of httpx.AsyncClient objects constructed so far
  aclosed,        \* the clients aclose() was called on, in order
  stale,          \* some handler segment obtained a client that was closed
  main_pc,        \* main(): "run" inside server.run, "finally", "end"
  listed,         \* the answers list_tools has given, most recent last
  tasks           \* the call_tool invocations, by slot

vars == <<li_at_cookie, session, constructed, aclosed, stale, main_pc, listed, tasks>>

Slots == 1..NumTasks
NoSession == 0

(***************************************************************************)
(* list_tools                                                              *)
(***************************************************************************)
\* a catalog that lost its last entry
list_tools_truncated == SubSeq(Tools, 1, Len(Tools) - 1)

list_tools == Tools

(***************************************************************************)
(* get_http_client: the session and the construction count after the call; *)
(* the client returned is the session                                      *)
(***************************************************************************)
\* a client constructed on every call, without the `is None` test
get_http_client_unguarded ==
  [session |-> constructed + 1, constructed |-> constructed + 1]

get_http_client ==
  IF session = NoSession
  THEN [session |-> constructed + 1, constructed |-> constructed + 1]
  ELSE [session |-> session, constructed |-> constructed]

(***************************************************************************)
(* A segment of a handler (the code up to its next suspending await) ends  *)
(* by returning a value, raising, or awaiting client.get(req) at a site.   *)
(* client tells whether the segment called get_http_client.                *)
(***************************************************************************)
NoRequest == Request("", EmptyDict)
NoFrame == [username |-> None, profile |-> None, limit |-> None]

Return(value) ==
  [k |-> "return", value |-> value, client |-> FALSE,
   site |-> "", req |-> NoRequest, frame |-> NoFrame]
Raise(exc, client) ==
  [k |-> "raise", value |-> exc, client |-> client,
   site |-> "", req |-> NoRequest, frame |-> NoFrame]
Await(site, req, frame) ==
  [k |-> "await", value |-> None, client |-> TRUE,
   site |-> site, req |-> req, frame |-> frame]
ReturnOrRaise(value) == IF IsRaise(value) THEN Raise(value, FALSE) ELSE Return(value)

\* the capabilities up to their first client.get
get_my_profile_start == Await("get_my_profile", get_my_profile_request, NoFrame)

get_profile_by_url_start(profile_url, site, frame) ==
  IF IsRaise(extract_username(profile_url))
  THEN Raise(extract_username(profile_url), TRUE)
  ELSE Await(site, get_profile_by_url_request(extract_username(profile_url)),
             [frame EXCEPT !.username = extract_username(profile_url)])

search_profiles_start(query, limit) ==
  Await("search_profiles", search_profiles_request(query, limit), NoFrame)

search_jobs_start(keywords, location, limit) ==
  Await("search_jobs", search_jobs_request(keywords, location, limit), NoFrame)

get_my_connections_start(limit) ==
  Await("get_my_connections", get_my_connections_request(limit), NoFrame)

get_feed_start(limit) ==
  Await("get_feed", get_feed_request(limit), [NoFrame EXCEPT !.limit = limit])

\* a required parameter read like an optional one: arguments.get(key, "")
required_argument_defaulted(arguments, key) == py_get(arguments, key, EmptyStr)

\* arguments[key], for a required parameter
required_argument(arguments, key) == py_index(arguments, key)

\* arguments.get(key, default), for an optional parameter
optional_argument(arguments, key, default) == py_get(arguments, key, default)

\* the first exception raised while call_tool reads its arguments in order,
\* or the segment the capability called with them ends by
WithArguments(args, seg) ==
  IF AnyRaise(args) THEN Raise(FirstRaise(args), FALSE) ELSE seg

\* the if/elif chain of call_tool, up to the first suspending await
call_tool_dispatch(name, arguments) ==
  CASE name = "get_my_profile" -> get_my_profile_start
    [] name = "get_profile_by_url" ->
         LET profile_url == required_argument(arguments, "profile_url")
         IN  WithArguments(<<profile_url>>,
               get_profile_by_url_start(profile_url, "get_profile_by_url", NoFrame))
    [] name = "search_profiles" ->
         LET query == required_argument(arguments, "query")
             limit == optional_argument(arguments, "limit", Num(DefaultLimit))
         IN  WithArguments(<<query, limit>>, search_profiles_start(query, limit))
    [] name = "search_jobs" ->
         LET keywords == required_argument(arguments, "keywords")
             location == optional_argument(arguments, "location", EmptyStr)
             limit == optional_argument(arguments, "limit", Num(DefaultLimit))
         IN  WithArguments(<<keywords, location, limit>>,
               search_jobs_start(keywords, location, limit))
    [] name = "get_my_connections" ->
         LET limit == optional_argument(arguments, "limit", Num(DefaultConnections))
         IN  WithArguments(<<limit>>, get_my_connections_start(limit))
    [] name = "get_feed" ->
         LET limit == optional_argument(arguments, "limit", Num(DefaultLimit))
         IN  WithArguments(<<limit>>, get_feed_start(limit))
    [] OTHER -> Return(Str("Unknown tool: " \o name))

\* the capability suspended at site, resumed with the outcome of its client.get
resume_segment(site, frame, data) ==
  CASE site = "get_my_profile" ->
         IF IsRaise(get_my_profile_basic(data))
         THEN Raise(get_my_profile_basic(data), FALSE)
         ELSE IF py_truthy(get_my_profile_username(data))
         THEN get_profile_by_url_start(get_my_profile_username(data), "get_my_profile/detailed",
                                       [NoFrame EXCEPT !.profile = get_my_profile_basic(data)])
         ELSE Return(get_my_profile_basic(data))
    [] site = "get_my_profile/detailed" ->
         ReturnOrRaise(get_my_profile_merge(frame.profile,
                                            get_profile_by_url_parse(data, frame.username)))
    [] site = "get_profile_by_url" ->
         ReturnOrRaise(get_profile_by_url_parse(data, frame.username))
    [] site = "search_profiles" -> ReturnOrRaise(search_profiles_parse(data))
    [] site = "search_jobs" -> ReturnOrRaise(search_jobs_parse(data))
    [] site = "get_my_connections" -> ReturnOrRaise(get_my_connections_parse(data))
    [] site = "get_feed" -> ReturnOrRaise(get_feed_parse(data, frame.limit))

(***************************************************************************)
(* call_tool's own returns                                                 *)
(***************************************************************************)
MissingCookieText ==
  "Error: LINKEDIN_SESSION_COOKIE environment variable not set. Please configure your LinkedIn session cookie."

Hint == "\n\nMake sure your LinkedIn session cookie is valid and not expired."

\* classes that derive from BaseException but not from Exception
NotException == {"CancelledError", "KeyboardInterrupt", "SystemExit", "GeneratorExit"}

\* except httpx.HTTPStatusError as e
caught_status_only(exc) == exc.cls = "HTTPStatusError"

\* except Exception as e
caught(exc) == exc.cls \notin NotException

\* f"Error: {str(e)}\n\nMake sure ..."
error_text(exc) == "Error: " \o exc.msg \o Hint

\* if self.li_at_cookie is None
cookie_missing_is_none == li_at_cookie = None

\* if not self.li_at_cookie
cookie_missing == ~py_truthy(li_at_cookie)

\* the failed request issued once more
on_get_failure_retry(site, frame, req, exc) == Await(site, req, frame)

\* a client.get, raise_for_status or .json() that raises inside a capability:
\* no capability handles it, it leaves the capability at once
on_get_failure(site, frame, req, exc) == Raise(exc, FALSE)

IdleTask ==
  [pc |-> "idle", name |-> "", arguments |-> None, site |-> "", frame |-> NoFrame,
   reqs |-> <<>>, resps |-> <<>>, built |-> 0, client |-> NoSession,
   value |-> None, text |-> ""]

\* the invocation after a segment that ended as seg, with hc the outcome of
\* get_http_client when the segment called it
after_segment(task, seg, hc) ==
  LET t1 == IF seg.client
            THEN [task EXCEPT !.client = hc.session,
                              !.built = @ + (hc.constructed - constructed)]
            ELSE task
  IN  CASE seg.k = "await" ->
             [t1 EXCEPT !.pc = "suspended", !.site = seg.site, !.frame = seg.frame,
                        !.reqs = Append(@, seg.req)]
        [] seg.k = "return" ->
             [t1 EXCEPT !.pc = "returned", !.site = "", !.frame = NoFrame,
                        !.value = seg.value, !.text = json_dumps(seg.value)]
        [] seg.k = "raise" /\ caught(seg.value) ->
             [t1 EXCEPT !.pc = "returned", !.site = "", !.frame = NoFrame,
                        !.value = seg.value, !.text = error_text(seg.value)]
        [] OTHER ->
             [t1 EXCEPT !.pc = "propagated", !.site = "", !.frame = NoFrame,
                        !.value = seg.value]

\* the shared state after a segment
RunSegment(i, task, seg) ==
  LET hc == IF seg.client THEN get_http_client
            ELSE [session |-> session, constructed |-> constructed]
  IN  /\ session' = hc.session
      /\ constructed' = hc.constructed
      /\ stale' = (stale \/ (seg.client /\ \E j \in DOMAIN aclosed : aclosed[j] = hc.session))
      /\ tasks' = [tasks EXCEPT ![i] = after_segment(task, seg, hc)]
      /\ UNCHANGED <<li_at_cookie, aclosed, main_pc, listed>>

(***************************************************************************)
(* Actions                                                                 *)
(***************************************************************************)
\* the transport loop asks for the catalog
ListTools ==
  /\ main_pc = "run"
  /\ Len(listed) < MaxListings
  /\ listed' = Append(listed, list_tools)
  /\ UNCHANGED <<li_at_cookie, session, constructed, aclosed, stale, main_pc, tasks>>

\* call_tool(name, arguments), from its entry to its first suspending await
call_tool(i, name, arguments) ==
  /\ main_pc = "run"
  /\ tasks[i].pc = "idle"
  /\ IF cookie_missing
     THEN /\ tasks' = [tasks EXCEPT ![i] =
                         [@ EXCEPT !.pc = "returned", !.name = name,
                                   !.arguments = arguments, !.text = MissingCookieText]]
          /\ UNCHANGED <<li_at_cookie, session, constructed, aclosed, stale, main_pc, listed>>
     ELSE RunSegment(i, [tasks[i] EXCEPT !.name = name, !.arguments = arguments],
                     call_tool_dispatch(name, arguments))

\* the client.get a handler awaits completes with resp, and the handler runs
\* to its next suspending await or to its end
Resume(i, resp) ==
  /\ tasks[i].pc = "suspended"
  /\ RunSegment(i, [tasks[i] EXCEPT !.resps = Append(@, resp)],
                IF IsRaise(await_get(tasks[i].reqs[Len(tasks[i].reqs)], resp))
                THEN on_get_failure(tasks[i].site, tasks[i].frame,
                                    tasks[i].reqs[Len(tasks[i].reqs)],
                                    await_get(tasks[i].reqs[Len(tasks[i].reqs)], resp))
                ELSE resume_segment(tasks[i].site, tasks[i].frame,
                                    await_get(tasks[i].reqs[Len(tasks[i].reqs)], resp)))

\* server.run() ends (end of input, or main is cancelled): the handlers still
\* suspended are cancelled with it, CancelledError raised at their await
server_run_exit ==
  /\ main_pc = "run"
  /\ main_pc' = "finally"
  /\ tasks' = [i \in Slots |->
                 IF tasks[i].pc = "suspended"
                 THEN after_segment(tasks[i], Raise(Exc("CancelledError", ""), FALSE),
                                    [session |-> session, constructed |-> constructed])
                 ELSE tasks[i]]
  /\ UNCHANGED <<li_at_cookie, session, constructed, aclosed, stale, listed>>

\* cleanup without the `if self.session` test
cleanup_unguarded ==
  /\ main_pc = "finally"
  /\ main_pc' = "end"
  /\ aclosed' = Append(aclosed, session)
  /\ UNCHANGED <<li_at_cookie, session, constructed, stale, listed, tasks>>

\* finally: await server_instance.cleanup()
cleanup ==
  /\ main_pc = "finally"
  /\ main_pc' = "end"
  /\ aclosed' = IF session # NoSession THEN Append(aclosed, session) ELSE aclosed
  /\ UNCHANGED <<li_at_cookie, session, constructed, stale, listed, tasks>>

(***************************************************************************)
(* Inputs                                                                  *)
(***************************************************************************)
Call(name, items) == [name |-> name, arguments |-> Dict(items)]

Calls == {
  Call("get_my_profile", <<>>),
  Call("get_profile_by_url", <<>>),
  Call("get_profile_by_url", << <<"profile_url", Str("ada")>> >>),
  Call("search_profiles", <<>>),
  Call("search_profiles", << <<"query", Str("ml")>>, <<"limit", Num(1)>> >>),
  Call("search_jobs", <<>>),
  Call("search_jobs", << <<"keywords", Str("dev")>>, <<"location", Str("Remote")>> >>),
  Call("get_my_connections", <<>>),
  Call("get_feed", << <<"limit", Num(1)>> >>),
  Call("delete_post", <<>>) }

Cookies == {None, EmptyStr, Str("AQEDAT")}

Failures == {ConnectError, ReadTimeout, HttpJson(401, Dict(<< <<"status", Num(401)>> >>)),
             HttpText(500), HttpText(200)}

\* the upstream documents of the interleaving specification
Payloads(site) ==
  CASE site = "get_my_profile" ->
         {EmptyDict, Dict(<< <<"firstName", Str("Ada")>>, <<"publicIdentifier", Str("ada")>> >>)}
    [] site \in {"get_my_profile/detailed", "get_profile_by_url"} ->
         {Dict(<< <<"profile", Dict(<< <<"firstName", Str("Ada")>>,
                                       <<"headline", Str("Analyst")>> >>)>> >>)}
    [] site = "get_feed" ->
         {Dict(<< <<"elements", List(<<EmptyDict, EmptyDict>>)>> >>)}
    [] OTHER -> {EmptyDict}

Responses(site) == Failures \cup {HttpJson(200, d) : d \in Payloads(site)}

(***************************************************************************)
(* Inputs of the normalisation specification: upstream documents in which  *)
(* every expected key may be absent, hold a value of the documented shape, *)
(* or hold another JSON value                                              *)
(***************************************************************************)
RECURSIVE ItemsFrom(_, _)
\* the item sequences that keep, in order, any subset of the fields
\* <<key, set of values>> from the j-th on
ItemsFrom(fields, j) ==
  IF j > Len(fields) THEN {<<>>}
  ELSE ItemsFrom(fields, j + 1)
       \cup {<< <<fields[j][1], val>> >> \o rest :
               val \in fields[j][2], rest \in ItemsFrom(fields, j + 1)}

DictsOf(fields) == {Dict(items) : items \in ItemsFrom(fields, 1)}

\* the lists of at most n values of S
ListsOf(S, n) == {List(xs) : xs \in UNION {[1..k -> S] : k \in 0..n}}

\* {"elements": xs} for the lists xs over S, and the degenerate documents
ElementDocs(S) ==
  {Dict(<< <<"elements", xs>> >>) : xs \in ListsOf(S, MaxElements) \cup {None}}
    \cup {EmptyDict}

\* JSON documents that are no object
NonObjects == {None, EmptyList, Str("ok")}

Date(m, y) == Dict(<< <<"month", Num(m)>>, <<"year", Num(y)>> >>)

GoodPositions == {
  EmptyDict,
  Dict(<< <<"title", Str("Engineer")>>, <<"companyName", Str("Acme")>>,
          <<"timePeriod", Dict(<< <<"startDate", Date(1, 2020)>> >>)>> >>),
  Dict(<< <<"timePeriod", Dict(<< <<"startDate", Dict(<< <<"year", Num(2019)>> >>)>>,
                                  <<"endDate", Date(6, 2021)>> >>)>> >>) }

BadPositions == {
  Dict(<< <<"timePeriod", None>> >>),
  Dict(<< <<"timePeriod", Dict(<< <<"startDate", None>> >>)>> >>) }

ManySkills ==
  List([j \in 1..(TopSkills + 1) |-> Dict(<< <<"name", Str("skill" \o ToString(j))>> >>)])

GoodProfileFields == <<
  <<"profile", {Dict(<< <<"firstName", Str("Ada")>> >>),
                Dict(<< <<"firstName", Str("Ada")>>, <<"lastName", Str("Lovelace")>>,
                        <<"headline", Str("Analyst")>>, <<"summary", Str("Notes")>>,
                        <<"locationName", Str("London")>>,
                        <<"industryName", Str("Computing")>> >>)}>>,
  <<"positionView", {Dict(<< <<"elements", xs>> >>) : xs \in ListsOf(GoodPositions, MaxElements)}
                      \cup {EmptyDict}>>,
  <<"educationView", {Dict(<< <<"elements", List(<<
                         Dict(<< <<"schoolName", Str("UoL")>>, <<"degreeName", Str("BSc")>>,
                                 <<"fieldOfStudy", Str("Mathematics")>> >>),
                         EmptyDict >>)>> >>)}>>,
  <<"skillView", {Dict(<< <<"elements", ManySkills>> >>),
                  Dict(<< <<"elements", List(<<EmptyDict>>)>> >>)}>> >>

BadProfileDocs ==
  {Dict(<< <<"profile", None>> >>),
   Dict(<< <<"profile", Dict(<< <<"firstName", None>> >>)>>, <<"skillView", None>> >>),
   Dict(<< <<"educationView", Dict(<< <<"elements", None>> >>)>> >>),
   Dict(<< <<"skillView", Dict(<< <<"elements", Str("abc")>> >>)>> >>)}
    \cup {Dict(<< <<"positionView", Dict(<< <<"elements", List(<<pos>>)>> >>)>> >>) :
            pos \in BadPositions}

GoodProfileHits == {
  EmptyDict,
  Dict(<< <<"hitInfo", EmptyDict>> >>),
  Dict(<< <<"hitInfo", Dict(<< <<"*profile", Dict(<< <<"firstName", Str("Ada")>>,
            <<"lastName", Str("Lovelace")>>, <<"headline", Str("Analyst")>>,
            <<"geoLocationName", Str("London")>>,
            <<"publicIdentifier", Str("ada")>> >>)>> >>)>> >>),
  Dict(<< <<"hitInfo", Dict(<< <<"*profile", Dict(<< <<"firstName", Str("Bob")>> >>)>> >>)>> >>) }

BadProfileHits == {
  Dict(<< <<"hitInfo", None>> >>),
  Dict(<< <<"hitInfo", Dict(<< <<"*profile", None>> >>)>> >>) }

GoodJobHits == {
  EmptyDict,
  Dict(<< <<"hitInfo", Dict(<< <<"*jobPosting", Dict(<< <<"title", Str("Developer")>>,
            <<"companyName", Str("Acme")>>, <<"formattedLocation", Str("Remote")>>,
            <<"jobPostingId", Num(42)>>, <<"listedAt", Num(1700000000)>> >>)>> >>)>> >>),
  Dict(<< <<"hitInfo", Dict(<< <<"*jobPosting", Dict(<< <<"title", Str("Tester")>> >>)>> >>)>> >>) }

BadJobHits == { Dict(<< <<"hitInfo", Dict(<< <<"*jobPosting", None>> >>)>> >>), None }

GoodConnections == {
  EmptyDict,
  Dict(<< <<"connectedMember", Dict(<< <<"firstName", Str("Ada")>>,
            <<"lastName", Str("Lovelace")>>, <<"headline", Str("Analyst")>>,
            <<"publicIdentifier", Str("ada")>> >>)>> >>),
  Dict(<< <<"connectedMember", Dict(<< <<"firstName", Str("Bob")>> >>)>> >>) }

BadConnections == { Dict(<< <<"connectedMember", None>> >>), Str("urn:li:member:1") }

Commentary(c) == Dict(<< <<"value", Dict(<< <<UpdateV2, Dict(<< <<"commentary", c>> >>)>> >>)>> >>)

GoodFeedElements == {
  EmptyDict,
  Dict(<< <<"value", EmptyDict>> >>),
  Dict(<< <<"value", Dict(<< <<UpdateV2, EmptyDict>> >>)>> >>),
  Commentary(Dict(<< <<"text", Dict(<< <<"text", Str("hello")>> >>)>> >>)),
  Commentary(Dict(<< <<"text", Dict(<< <<"text", Str("world")>> >>)>> >>)) }

BadFeedElements == {
  Dict(<< <<"value", None>> >>),
  Commentary(None),
  Commentary(Dict(<< <<"text", Str("plain")>> >>)) }

GoodMe == {
  EmptyDict,
  Dict(<< <<"firstName", Str("Ada")>>, <<"lastName", Str("Lovelace")>>,
          <<"headline", Str("Analyst")>>, <<"publicIdentifier", Str("ada")>> >>),
  Dict(<< <<"publicIdentifier", Str("ada")>> >>),
  Dict(<< <<"firstName", Str("Ada")>>, <<"publicIdentifier", EmptyStr>> >>) }

BadMe == {
  Dict(<< <<"publicIdentifier", None>> >>),
  Dict(<< <<"firstName", None>>, <<"publicIdentifier", Num(7)>> >>) }

\* documents whose present keys all hold values of the documented shape
GoodPayloads(site) ==
  CASE site = "get_my_profile" -> GoodMe
    [] site \in {"get_my_profile/detailed", "get_profile_by_url"} -> DictsOf(GoodProfileFields)
    [] site = "search_profiles" -> ElementDocs(GoodProfileHits) \ {Dict(<< <<"elements", None>> >>)}
    [] site = "search_jobs" -> ElementDocs(GoodJobHits) \ {Dict(<< <<"elements", None>> >>)}
    [] site = "get_my_connections" -> ElementDocs(GoodConnections) \ {Dict(<< <<"elements", None>> >>)}
    [] site = "get_feed" -> ElementDocs(GoodFeedElements) \ {Dict(<< <<"elements", None>> >>)}
    [] OTHER -> {}

WidePayloads(site) ==
  NonObjects \cup
  CASE site = "get_my_profile" -> GoodMe \cup BadMe
    [] site \in {"get_my_profile/detailed", "get_profile_by_url"} ->
         DictsOf(GoodProfileFields) \cup BadProfileDocs
    [] site = "search_profiles" -> ElementDocs(GoodProfileHits \cup BadProfileHits)
    [] site = "search_jobs" -> ElementDocs(GoodJobHits \cup BadJobHits)
    [] site = "get_my_connections" -> ElementDocs(GoodConnections \cup BadConnections)
    [] site = "get_feed" -> ElementDocs(GoodFeedElements \cup BadFeedElements)
    [] OTHER -> {}

WideResponses(site) == Failures \cup {HttpJson(200, d) : d \in WidePayloads(site)}

\* the limits a caller may send for a parameter of type "number", and none
Limits == {Num(n) : n \in (0 - MaxLimit)..MaxLimit} \cup {Float("1.5")}

WideCalls ==
  Calls
  \cup {Call("get_feed", << <<"limit", l>> >>) : l \in Limits}
  \cup {Call("get_feed", <<>>),
        Call("get_profile_by_url", << <<"profile_url", Str("https://www.linkedin.com/in/ada?trk=x")>> >>),
        Call("get_profile_by_url", << <<"profile_url", Str("https://www.linkedin.com")>> >>),
        Call("search_profiles", << <<"query", Str("ml")>> >>),
        Call("search_profiles", << <<"limit", Num(1)>> >>),
        Call("search_jobs", << <<"keywords", Str("dev")>>, <<"limit", Num(-1)>> >>),
        Call("get_my_connections", << <<"limit", Num(1)>> >>)}

Init ==
  /\ li_at_cookie \in Cookies
  /\ session = NoSession
  /\ constructed = 0
  /\ aclosed = <<>>
  /\ stale = FALSE
  /\ main_pc = "run"
  /\ listed = <<>>
  /\ tasks = [i \in Slots |-> IdleTask]

\* the transport loop starts a handler for a tools/call request
Invoke == \E i \in Slots, c \in Calls : call_tool(i, c.name, c.arguments)

\* the upstream answers, or fails to answer, a request in flight
Respond == \E i \in Slots : \E resp \in Responses(tasks[i].site) : Resume(i, resp)

Next ==
  \/ ListTools
  \/ Invoke
  \/ Respond
  \/ server_run_exit
  \/ cleanup

Spec == Init /\ [][Next]_vars

(***************************************************************************)
(* The normalisation specification: one invocation with the credential     *)
(* set, over the wide inputs                                               *)
(***************************************************************************)
NormInit ==
  /\ li_at_cookie = Str("AQEDAT")
  /\ session = NoSession
  /\ constructed = 0
  /\ aclosed = <<>>
  /\ stale = FALSE
  /\ main_pc = "run"
  /\ listed = <<>>
  /\ tasks = [i \in Slots |-> IdleTask]

NormInvoke == \E c \in WideCalls : call_tool(1, c.name, c.arguments)

NormRespond == \E resp \in WideResponses(tasks[1].site) : Resume(1, resp)

NormNext ==
  \/ NormInvoke
  \/ NormRespond

NormSpec == NormInit /\ [][NormNext]_vars
(***************************************************************************)
(* Vocabulary of the properties                                            *)
(***************************************************************************)
ToolNames == {Tools[j].name : j \in DOMAIN Tools}

\* the parameters the catalog declares required for a tool
RequiredOf(name) ==
  LET tool == Tools[CHOOSE j \in DOMAIN Tools : Tools[j].name = name]
  IN  {tool.inputSchema.required[j] : j \in DOMAIN tool.inputSchema.required}

\* a connection failure, a timeout, a non-2xx status, or a 2xx body that is
\* not JSON
FailureResponse(resp) ==
  \/ resp.kind \in {"ConnectError", "ReadTimeout"}
  \/ resp.kind = "http" /\ (resp.status < 200 \/ resp.status > 299 \/ ~resp.json)

\* a 2xx response whose body is a JSON object
JsonObjectResponse(resp) ==
  resp.kind = "http" /\ resp.status \in 200..299 /\ resp.json /\ resp.data.t = "dict"

CredentialSet == li_at_cookie # None /\ li_at_cookie # EmptyStr

IsErrorText(text) == StartsWith(text, "Error: ")

\* arguments naming every parameter of every tool
FullArguments ==
  Dict(<< <<"profile_url", Str("ada")>>, <<"query", Str("ml")>>,
          <<"keywords", Str("dev")>>, <<"location", Str("Remote")>>,
          <<"limit", Num(1)>> >>)

(***************************************************************************)
(* C1: when the session credential is unset, every call_tool invocation,   *)
(* whatever its name and arguments, returns the missing-credential error,  *)
(* and no upstream request is issued and no session constructed.           *)
(***************************************************************************)
C1_MissingCredential ==
  ~CredentialSet =>
    /\ constructed = 0
    /\ session = NoSession
    /\ \A i \in Slots :
         /\ tasks[i].reqs = <<>>
         /\ tasks[i].built = 0
         /\ tasks[i].pc \in {"idle", "returned"}
         /\ tasks[i].pc = "returned" => tasks[i].text = MissingCookieText

C1_Witness ==
  /\ li_at_cookie = EmptyStr
  /\ \E i, j \in Slots :
       /\ tasks[i].pc = "returned" /\ tasks[i].name = "get_my_profile"
       /\ tasks[j].pc = "returned" /\ tasks[j].name = "delete_post"

(***************************************************************************)
(* C2: however the invocations interleave, at most one session is ever     *)
(* constructed, and every invocation that obtained a client holds that     *)
(* same instance.                                                          *)
(***************************************************************************)
C2_SingleSession ==
  /\ constructed <= 1
  /\ session \in {NoSession, 1}
  /\ (session = NoSession) = (constructed = 0)
  /\ \A i \in Slots : tasks[i].client \in {NoSession, session}

C2_Witness ==
  \E i, j \in Slots :
    /\ i # j
    /\ tasks[i].pc = "suspended" /\ tasks[j].pc = "suspended"
    /\ tasks[i].built = 1 /\ tasks[j].built = 0
    /\ tasks[i].client = session /\ tasks[j].client = session

(***************************************************************************)
(* C3: with the credential present, a call_tool invocation naming a tool   *)
(* outside the catalog returns a text beginning with "Error: " and issues  *)
(* no upstream request.                                                    *)
(***************************************************************************)
C3_UnknownToolIsError ==
  \A i \in Slots :
    (CredentialSet /\ tasks[i].pc = "returned" /\ tasks[i].name \notin ToolNames) =>
      /\ IsErrorText(tasks[i].text)
      /\ tasks[i].reqs = <<>>

(***************************************************************************)
(* C4: with the credential present, invoking a tool without a parameter    *)
(* its schema requires returns a text beginning with "Error: ", and the    *)
(* invocation issues no upstream request and constructs no session.        *)
(***************************************************************************)
MissesRequired(task) ==
  /\ task.name \in ToolNames
  /\ task.arguments.t = "dict"
  /\ RequiredOf(task.name) \ Keys(task.arguments) # {}

C4_MissingArgument ==
  \A i \in Slots :
    (CredentialSet /\ tasks[i].pc # "idle" /\ MissesRequired(tasks[i])) =>
      /\ tasks[i].pc = "returned"
      /\ IsErrorText(tasks[i].text)
      /\ tasks[i].reqs = <<>>
      /\ tasks[i].built = 0
      /\ tasks[i].client = NoSession

C4_Witness ==
  /\ CredentialSet
  /\ \E i, j \in Slots :
       /\ tasks[i].pc = "returned" /\ tasks[i].name = "search_jobs"
       /\ MissesRequired(tasks[i])
       /\ tasks[j].pc = "returned" /\ tasks[j].name = "get_profile_by_url"
       /\ MissesRequired(tasks[j])

(***************************************************************************)
(* C5: an invocation whose upstream call failed (connection failure,       *)
(* timeout, non-2xx status, 2xx body that is not JSON) returns, without    *)
(* the exception leaving call_tool, a text that begins with "Error: " and  *)
(* ends with the credential hint; the missing-credential error does not    *)
(* carry the hint.                                                         *)
(***************************************************************************)
UpstreamFailed(task) ==
  \E k \in DOMAIN task.resps : FailureResponse(task.resps[k])

C5_UpstreamErrors ==
  \A i \in Slots :
    /\ UpstreamFailed(tasks[i]) =>
         /\ tasks[i].pc = "returned"
         /\ IsErrorText(tasks[i].text)
         /\ EndsWith(tasks[i].text, Hint)
    /\ (~CredentialSet /\ tasks[i].pc = "returned") =>
         /\ IsErrorText(tasks[i].text)
         /\ ~EndsWith(tasks[i].text, Hint)

C5_Witness ==
  \E i, j \in Slots :
    /\ tasks[i].pc = "returned" /\ tasks[i].name = "get_my_profile"
    /\ Len(tasks[i].resps) = 2 /\ tasks[i].resps[2] = HttpText(200)
    /\ tasks[j].pc = "returned" /\ tasks[j].name = "get_feed"
    /\ tasks[j].resps = <<ConnectError>>

(***************************************************************************)
(* C6 (as amended): list_tools returns the same ordered catalog on every   *)
(* call, whatever the state; the catalog has exactly six entries with      *)
(* distinct names, and call_tool routes each of these names to its own     *)
(* capability.                                                             *)
(***************************************************************************)
RoutedToOwnPath(catalog) ==
  \A k \in DOMAIN catalog :
    /\ call_tool_dispatch(catalog[k].name, FullArguments).k = "await"
    /\ call_tool_dispatch(catalog[k].name, FullArguments).site = catalog[k].name
    /\ \A m \in DOMAIN catalog : m # k => catalog[m].name # catalog[k].name

C6_CatalogOfSix ==
  \A j \in DOMAIN listed :
    /\ listed[j] = listed[1]
    /\ Len(listed[j]) = 6
    /\ RoutedToOwnPath(listed[j])

C6_Witness ==
  /\ Len(listed) = 2
  /\ session # NoSession
  /\ \E i \in Slots : tasks[i].pc = "returned" /\ tasks[i].name = "get_feed"

\* C6 as stated: the catalog has exactly five entries
C6_CatalogOfFive ==
  \A j \in DOMAIN listed :
    /\ listed[j] = listed[1]
    /\ Len(listed[j]) = 5
    /\ RoutedToOwnPath(listed[j])

(***************************************************************************)
(* C7: normalisation is total: an invocation all of whose upstream         *)
(* responses were 2xx JSON objects returns a record, not an error.         *)
(* (Invocations whose requested limit is not a non-negative integer are    *)
(* left to C9.)                                                            *)
(***************************************************************************)
RequestedLimit(task) ==
  optional_argument(task.arguments, "limit",
                    Num(IF task.name = "get_my_connections"
                        THEN DefaultConnections ELSE DefaultLimit))

PlainLimit(task) == RequestedLimit(task).t = "int" /\ RequestedLimit(task).v >= 0

C7_NormalizationTotal ==
  \A i \in Slots :
    ( /\ tasks[i].pc = "returned"
      /\ tasks[i].resps # <<>>
      /\ \A k \in DOMAIN tasks[i].resps : JsonObjectResponse(tasks[i].resps[k])
      /\ PlainLimit(tasks[i]) ) =>
        /\ tasks[i].value.t = "dict"
        /\ ~IsErrorText(tasks[i].text)

\* the site the k-th request of an invocation was issued from
SiteOf(task, k) ==
  IF task.name = "get_my_profile" /\ k = 2 THEN "get_my_profile/detailed" ELSE task.name

\* What does hold: on documents whose present keys all hold values of the
\* documented shape, every normaliser returns a record.
NormalizationTotalOnDocumentedShapes ==
  \A i \in Slots :
    ( /\ tasks[i].pc = "returned"
      /\ tasks[i].resps # <<>>
      /\ \A k \in DOMAIN tasks[i].resps :
           /\ JsonObjectResponse(tasks[i].resps[k])
           /\ tasks[i].resps[k].data \in GoodPayloads(SiteOf(tasks[i], k))
      /\ PlainLimit(tasks[i]) ) =>
        /\ tasks[i].value.t = "dict"
        /\ ~IsErrorText(tasks[i].text)

(***************************************************************************)
(* C9: for a feed response with N elements and a requested limit L that is *)
(* a number, get_feed succeeds and returns at most L posts, in upstream    *)
(* order, with count the number of posts returned; an element without the  *)
(* 'value' key or the nested update key yields a post with empty text.     *)
(***************************************************************************)
\* the commentary text of a feed element of the documented shape
CommentaryText(element) ==
  py_get(py_get(py_get(py_get(py_get(element, "value", EmptyDict),
                              UpdateV2, EmptyDict),
                       "commentary", EmptyDict),
                "text", EmptyDict),
         "text", EmptyStr)

FeedCase(task) ==
  /\ task.pc = "returned"
  /\ task.name = "get_feed"
  /\ Len(task.resps) = 1
  /\ JsonObjectResponse(task.resps[1])
  /\ task.resps[1].data \in GoodPayloads("get_feed")
  /\ "elements" \in Keys(task.resps[1].data)
  /\ RequestedLimit(task).t \in {"int", "float"}

C9_FeedLimit ==
  \A i \in Slots :
    FeedCase(tasks[i]) =>
      LET upstream == Lookup(tasks[i].resps[1].data, "elements").v
          L == RequestedLimit(tasks[i])
          result == tasks[i].value
      IN  /\ result.t = "dict"
          /\ Keys(result) = {"count", "posts"}
          /\ Lookup(result, "count") = Num(Len(Lookup(result, "posts").v))
          /\ Len(Lookup(result, "posts").v) <= Len(upstream)
          /\ L.t = "int" => Len(Lookup(result, "posts").v) <= (IF L.v > 0 THEN L.v ELSE 0)
          /\ \A j \in DOMAIN Lookup(result, "posts").v :
               Lookup(result, "posts").v[j] =
                 Dict(<< <<"text", CommentaryText(upstream[j])>>,
                         <<"author", EmptyStr>>, <<"timestamp", EmptyStr>> >>)

(***************************************************************************)
(* C8: there is no retry: once a response to an invocation's request is a  *)
(* failure, that request was the invocation's last, the invocation has     *)
(* returned the error, and a returned invocation never changes again; no   *)
(* invocation issues the same request twice.  In particular get_my_profile *)
(* whose first request fails never issues the second.                      *)
(***************************************************************************)
NoRetryState ==
  \A i \in Slots :
    /\ Len(tasks[i].resps) <= Len(tasks[i].reqs)
    /\ \A k \in DOMAIN tasks[i].resps :
         FailureResponse(tasks[i].resps[k]) =>
           /\ k = Len(tasks[i].reqs)
           /\ k = Len(tasks[i].resps)
           /\ tasks[i].pc = "returned"
           /\ IsErrorText(tasks[i].text)
    /\ \A a, b \in DOMAIN tasks[i].reqs : a # b => tasks[i].reqs[a] # tasks[i].reqs[b]
    /\ ( /\ tasks[i].name = "get_my_profile"
         /\ tasks[i].resps # <<>>
         /\ FailureResponse(tasks[i].resps[1]) ) => Len(tasks[i].reqs) = 1

ReturnsOnce ==
  \A i \in Slots : tasks[i].pc = "returned" => tasks'[i] = tasks[i]

C8_NoRetry == []NoRetryState /\ [][ReturnsOnce]_vars

C8_Witness ==
  \E i, j \in Slots :
    /\ tasks[i].pc = "returned" /\ tasks[i].name = "get_my_profile"
    /\ Len(tasks[i].reqs) = 1 /\ tasks[i].resps = <<ReadTimeout>>
    /\ tasks[j].pc = "returned" /\ tasks[j].name = "get_my_profile"
    /\ Len(tasks[j].reqs) = 2 /\ Len(tasks[j].resps) = 2
    /\ FailureResponse(tasks[j].resps[2])

(***************************************************************************)
(* C10: over a process lifetime the session is closed exactly once if it   *)
(* was ever constructed and never otherwise; it is closed only by the      *)
(* cleanup at shutdown, and once it is closed no invocation is in flight,  *)
(* obtains it or uses it.                                                  *)
(***************************************************************************)
C10_ClosedOnceAtShutdown ==
  /\ Len(aclosed) <= 1
  /\ constructed = 0 => aclosed = <<>>
  /\ aclosed # <<>> => (main_pc = "end" /\ aclosed = <<session>> /\ session # NoSession)
  /\ main_pc = "end" => Len(aclosed) = (IF constructed > 0 THEN 1 ELSE 0)
  /\ ~stale
  /\ aclosed # <<>> => \A i \in Slots : tasks[i].pc # "suspended"

C10_Witness ==
  /\ main_pc = "end"
  /\ aclosed = <<1>>
  /\ \E i, j \in Slots :
       /\ tasks[i].pc = "propagated" /\ tasks[i].client = 1
       /\ tasks[j].pc = "returned" /\ tasks[j].client = 1
====
